---------------------------- MODULE Spec2Model ----------------------------
(***************************************************************************)
(* Bring-up layer of the quantum kernel (Raspberry Pi, AArch64):           *)
(* processor entry, runtime bootstrap, driver initialization, the PL011    *)
(* UART driver and the panic path.                                         *)
(*                                                                         *)
(* Three specifications share the actions below:                           *)
(*   Spec       - the program from reset to the echo loop or the panic     *)
(*                wait, on every core;                                     *)
(*   SpecBoot   - entry point and runtime bootstrap over every bss range   *)
(*                and every prior memory content;                          *)
(*   SpecDriver - the UART driver's public operations called in any order  *)
(*                from a freshly constructed driver over any prior         *)
(*                register state.                                          *)
(***************************************************************************)
EXTENDS Integers, Sequences, FiniteSets, TLC

-----------------------------------------------------------------------------
(* Bounds of the model *)

\* number of cores released from reset
NumCores == 2
\* number of usize cells of memory that are modelled
MemSize == 3
\* echo-loop iterations explored in Spec
MaxEcho == 2
\* characters written / read through the driver in SpecDriver
MaxChars == 3
\* longest string handed to write_fmt in SpecDriver
MaxStr == 2

-----------------------------------------------------------------------------
(* Program constants *)

\* bsp::cpu::BOOT_CORE_ID
BOOT_CORE_ID == 0
\* bsp::cpu::BOOT_CORE_STACK_START
BOOT_CORE_STACK_START == 524288

\* register_bitfields!: field positions (OFFSET) and widths (NUMBITS)
FR_TXFE_OFFSET == 7
FR_TXFF_OFFSET == 5
FR_RXFE_OFFSET == 4
IBRD_NUMBITS == 16
FBRD_NUMBITS == 6
LCRH_WLEN_OFFSET == 5
LCRH_WLEN_NUMBITS == 2
LCRH_WLEN_EightBit == 3
LCRH_FEN_OFFSET == 4
CR_RXE_OFFSET == 9
CR_TXE_OFFSET == 8
CR_UARTEN_OFFSET == 0
ICR_ALL_NUMBITS == 11
\* the divisors programmed by init
IBRD_VAL == 13
FBRD_VAL == 2

\* variant: the reserved gaps are left out of the layout
RegisterBlock_Packed ==
    [DR |-> 0, FR |-> 4, IBRD |-> 8, FBRD |-> 12, LCRH |-> 16, CR |-> 20,
     ICR |-> 24]

\* register_structs!: byte offset of every declared register
RegisterBlock ==
    [DR |-> 0, FR |-> 24, IBRD |-> 36, FBRD |-> 40, LCRH |-> 44, CR |-> 48,
     ICR |-> 68]

Pow2(n) == 2 ^ n

\* register::FieldValue::new(mask, shift, value): (value & mask) << shift
FieldValue(numbits, offset, value) == (value % Pow2(numbits)) * Pow2(offset)
\* the field of a register value: (reg >> shift) & mask
FieldOf(reg, numbits, offset) == (reg \div Pow2(offset)) % Pow2(numbits)
\* <field>::SET and <field>::CLEAR as register_bitfields! generates them:
\* SET has every bit of the field set, CLEAR has none
FieldSET(numbits, offset) == FieldValue(numbits, offset, Pow2(numbits) - 1)
FieldCLEAR(numbits, offset) == FieldValue(numbits, offset, 0)
\* ReadOnly::matches_all(field value): (reg & mask) == value
MatchesAll(reg, numbits, offset, fv) ==
    FieldValue(numbits, offset, FieldOf(reg, numbits, offset)) = fv

-----------------------------------------------------------------------------
(* Text: a string is the sequence of the code points of its characters *)

NL == 10
CR_CHAR == 13

\* "Fatal error: "
STR_FATAL == <<70, 97, 116, 97, 108, 32, 101, 114, 114, 111, 114, 58, 32>>
\* "Fatal error!"
STR_FATAL_BARE == <<70, 97, 116, 97, 108, 32, 101, 114, 114, 111, 114, 33>>
\* "attempt to add with overflow": the message of the panic a checked
\* chars_written += 1 raises
STR_OVERFLOW ==
    <<97, 116, 116, 101, 109, 112, 116, 32, 116, 111, 32, 97, 100, 100, 32,
      119, 105, 116, 104, 32, 111, 118, 101, 114, 102, 108, 111, 119>>
\* "Error loading driver: "
STR_ERR_LOADING ==
    <<69, 114, 114, 111, 114, 32, 108, 111, 97, 100, 105, 110, 103, 32,
      100, 114, 105, 118, 101, 114, 58, 32>>
\* "BCM PL011 UART"
STR_UART == <<66, 67, 77, 32, 80, 76, 48, 49, 49, 32, 85, 65, 82, 84>>
\* "BCM GPIO"
STR_GPIO == <<66, 67, 77, 32, 71, 80, 73, 79>>
\* "Raspberry Pi 3"
STR_BOARD == <<82, 97, 115, 112, 98, 101, 114, 114, 121, 32, 80, 105, 32, 51>>
\* "[0] Booting on: "
STR_L0 == <<91, 48, 93, 32, 66, 111, 111, 116, 105, 110, 103, 32, 111, 110, 58, 32>>
\* "[1] Drivers loaded: "
STR_L1 ==
    <<91, 49, 93, 32, 68, 114, 105, 118, 101, 114, 115, 32, 108, 111, 97,
      100, 101, 100, 58, 32>>
\* "        (" and ") "
STR_L1_OPEN == <<32, 32, 32, 32, 32, 32, 32, 32, 40>>
STR_L1_CLOSE == <<41, 32>>
\* "[2] Chars written: "
STR_L2 ==
    <<91, 50, 93, 32, 67, 104, 97, 114, 115, 32, 119, 114, 105, 116, 116,
      101, 110, 58, 32>>
\* "[3] Echoing input..."
STR_L3 ==
    <<91, 51, 93, 32, 69, 99, 104, 111, 105, 110, 103, 32, 105, 110, 112,
      117, 116, 46, 46, 46>>

\* core::fmt::Display for an unsigned integer: its decimal digits
RECURSIVE Decimal(_)
Decimal(n) == IF n < 10 THEN <<48 + n>> ELSE Decimal(n \div 10) \o <<48 + (n % 10)>>

-----------------------------------------------------------------------------
(* The driver table *)

\* BSP_DRIVER_MANAGER.device_drivers
device_drivers == <<"GPIO", "PL011_UART">>

\* DeviceDriver::compatible
compatible(d) == IF d = "PL011_UART" THEN STR_UART ELSE STR_GPIO

\* the results GPIO's DeviceDriver::init can report (Result<(), ()>)
GpioInitOutcomes == {"Ok", "Err"}

-----------------------------------------------------------------------------
(* State *)

VARIABLES
    pc,          \* pc[c]: where core c is
    sp,          \* sp[c]: stack pointer of core c, [set, val]; set once written
    mem,         \* memory, one entry per usize cell
    mem0,        \* memory as it was at reset
    bss,         \* [start, end]: the linker's __bss_start and __bss_end
    ptr,         \* zero_volatile's running pointer
    drv,         \* kernel_init's position in the driver table
    initResult,  \* per table entry: "none" until init returned, then its result
    initCalls,   \* per table entry: how often init was called
    postInit,    \* how often post_device_driver_init ran
    line,        \* kernel_main: the next banner line
    regs,        \* the write-only / read-write device registers, as last written
    inner,       \* PL011_UART.inner: [chars_written, chars_read]
    panicUart,   \* the PanicUart instance: same fields, live once created
    self,        \* the instance the running UART operation works on
    lock,        \* closures currently running inside PL011_UART.inner.lock
    txq,         \* characters the running write still has to emit
    istep,       \* the register write the running init is about to issue
    cont,        \* where the running UART operation returns to
    res,         \* Result returned by the last init or write_fmt
    ret,         \* character returned by the last read_char
    stat,        \* value returned by the last chars_written / chars_read
    acc,         \* the most recent register access
    hist,        \* counts of what happened so far
    panic_msg,   \* PanicInfo::message of the panic being handled
    panic_out    \* the code points the panic path wrote to the Data Register

bootVars == <<sp, mem, mem0, bss, ptr>>
kernVars == <<drv, initResult, initCalls, postInit, line, panic_msg>>
uartVars ==
    <<regs, inner, panicUart, self, lock, txq, istep, cont, res, ret, stat, acc,
      hist, panic_out>>
vars == <<pc, bootVars, kernVars, uartVars>>

Cores == 0..(NumCores - 1)
Addrs == 0..(MemSize - 1)
\* contents a memory cell can hold before the bootstrap runs
CellValues == {0, 1}

\* cpu::smp::core_id() on core c
core_id(c) == c

\* values the Flag Register can show: TXFE, TXFF, RXFE in any combination the
\* hardware produces (the transmit FIFO is never both empty and full)
FRValues ==
    {Pow2(FR_TXFE_OFFSET) * e + Pow2(FR_TXFF_OFFSET) * f + Pow2(FR_RXFE_OFFSET) * r :
        e \in {0, 1}, f \in {0, 1}, r \in {0, 1}} \
    {v \in 0..255 : FieldOf(v, 1, FR_TXFE_OFFSET) = 1 /\ FieldOf(v, 1, FR_TXFF_OFFSET) = 1}

\* values a read of the Data Register can return: received byte in bits 0-7,
\* error flags above it
RxValues == {10, 13, 65, 269, 3338}

\* register contents before init: reset values, a configured device, garbage.
\* RIS is the device's set of pending interrupt flags (bits 0 to 10), which
\* the driver reaches only through writes of ICR.
PriorRegs ==
    [DR : {0}, IBRD : {0, 65535}, FBRD : {0, 63}, LCRH : {0, 255},
     CR : {0, 65535}, ICR : {0}, RIS : {0}]

\* interrupt flags pending before init: none, receive, receive and overrun, all
PriorPending == {0, 16, 1040, Pow2(ICR_ALL_NUMBITS) - 1}

NoAccess == [reg |-> "none", op |-> "none", val |-> 0]
\* PL011UartInner::new
NewInner == [chars_written |-> 0, chars_read |-> 0]
\* wr_req: characters handed to the driver for writing; rd_req: read_char calls
\* made; dr_rd / dr_wr: reads / writes of the Data Register; inits: init calls
\* of the driver that returned (counted up to 2); waited: the polling loop that
\* is running has seen its flag set at least once
NoHist ==
    [wr_req |-> 0, rd_req |-> 0, dr_rd |-> 0, dr_wr |-> 0, inits |-> 0,
     waited |-> FALSE]

-----------------------------------------------------------------------------
(* Initial states *)

InitCommon ==
    /\ ptr = 0
    /\ drv = 1
    /\ initResult = [k \in 1..Len(device_drivers) |-> "none"]
    /\ initCalls = [k \in 1..Len(device_drivers) |-> 0]
    /\ postInit = 0
    /\ line = 0
    /\ panic_msg = [some |-> FALSE, args |-> <<>>]
    /\ inner = NewInner
    /\ panicUart = [live |-> FALSE] @@ NewInner
    /\ self = "driver"
    /\ lock = 0
    /\ txq = <<>>
    /\ istep = 1
    /\ cont = "none"
    /\ res = "none"
    /\ ret = 0
    /\ stat = 0
    /\ acc = NoAccess
    /\ hist = NoHist
    /\ panic_out = <<>>

\* reset: every core at _start, registers at their reset values, the bss
\* segment [1, MemSize - 1) inside memory that holds garbage
Init ==
    /\ InitCommon
    /\ pc = [c \in Cores |-> "_start"]
    /\ sp = [c \in Cores |-> [set |-> FALSE, val |-> 0]]
    /\ mem = [a \in Addrs |-> 1]
    /\ mem0 = mem
    /\ bss = [start |-> 1, end |-> MemSize - 1]
    /\ regs = [DR |-> 0, IBRD |-> 0, FBRD |-> 0, LCRH |-> 0, CR |-> 0, ICR |-> 0,
              RIS |-> 0]

\* reset with any well-formed bss range and any memory content
InitBoot ==
    /\ InitCommon
    /\ pc = [c \in Cores |-> "_start"]
    /\ sp = [c \in Cores |-> [set |-> FALSE, val |-> 0]]
    /\ mem \in [Addrs -> CellValues]
    /\ mem0 = mem
    /\ bss \in {r \in [start : 0..MemSize, end : 0..MemSize] : r.start <= r.end}
    /\ regs = [DR |-> 0, IBRD |-> 0, FBRD |-> 0, LCRH |-> 0, CR |-> 0, ICR |-> 0,
              RIS |-> 0]

-----------------------------------------------------------------------------
(* Processor entry point: _arch/aarch64/cpu.rs *)

Goto(c, l) == pc' = [pc EXCEPT ![c] = l]

\* variant: the comparison is inverted
IsBootCore_Neq(c) == BOOT_CORE_ID # core_id(c)

\* the comparison that selects the boot core
IsBootCore(c) == BOOT_CORE_ID = core_id(c)

\* _start: the boot core goes on, every other core goes to wait_forever
start(c) ==
    /\ pc[c] = "_start"
    /\ IF IsBootCore(c) THEN Goto(c, "set_sp") ELSE Goto(c, "wait_forever")
    /\ UNCHANGED <<bootVars, kernVars, uartVars>>

\* SP.set(BOOT_CORE_STACK_START)
set_sp(c) ==
    /\ pc[c] = "set_sp"
    /\ sp' = [sp EXCEPT ![c] = [set |-> TRUE, val |-> BOOT_CORE_STACK_START]]
    /\ Goto(c, "runtime_init")
    /\ UNCHANGED <<mem, mem0, bss, ptr, kernVars, uartVars>>

\* wait_forever: loop { wfe }
wait_forever(c) ==
    /\ pc[c] \in {"wait_forever", "wfe"}
    /\ Goto(c, "wfe")
    /\ UNCHANGED <<bootVars, kernVars, uartVars>>

-----------------------------------------------------------------------------
(* Runtime bootstrap: runtime_init.rs *)

\* variant: the two linker symbols are taken the other way round
bss_range_Swapped(b) == [start |-> b.end, end |-> b.start]

\* bss_range(): Range { start: &mut __bss_start, end: &mut __bss_end }
bss_range(b) == [start |-> b.start, end |-> b.end]

\* runtime_init calls zero_bss, which hands bss_range() to zero_volatile
runtime_init(c) ==
    /\ pc[c] = "runtime_init"
    /\ ptr' = bss_range(bss).start
    /\ Goto(c, "zero_bss")
    /\ UNCHANGED <<sp, mem, mem0, bss, kernVars, uartVars>>

\* the cell one iteration of zero_volatile stores to, and the value stored
ZeroStore(m, p) == [m EXCEPT ![p] = 0]

\* memory::zero_volatile: one iteration, a volatile store of zero at ptr
zero_volatile_step(c) ==
    /\ pc[c] = "zero_bss"
    /\ ptr < bss_range(bss).end
    /\ mem' = ZeroStore(mem, ptr)
    /\ ptr' = ptr + 1
    /\ UNCHANGED <<pc, sp, mem0, bss, kernVars, uartVars>>

\* zero_volatile's loop ends; runtime_init calls kernel_init
zero_bss_done(c) ==
    /\ pc[c] = "zero_bss"
    /\ ~(ptr < bss_range(bss).end)
    /\ Goto(c, "kernel_init")
    /\ UNCHANGED <<bootVars, kernVars, uartVars>>

-----------------------------------------------------------------------------
(* PL011 UART: bsp/device_driver/bcm/bcm2xxx_pl011_uart.rs *)

\* p with every one of its low n bits cleared that is set in v
RECURSIVE AndNot(_, _, _)
AndNot(p, v, n) ==
    IF n = 0 THEN 0
    ELSE (p % 2) * (1 - (v % 2)) + 2 * AndNot(p \div 2, v \div 2, n - 1)

\* the pending flags after v was written to ICR: a 1 written to a bit clears
\* that flag, a 0 leaves it
IcrClear(p, v) == AndNot(p, v, ICR_ALL_NUMBITS)

\* a 32-bit store to register r (every value stored here fits 32 bits)
RegWrite(r, v) ==
    /\ regs' = [regs EXCEPT ![r] = v,
                            !.RIS = IF r = "ICR" THEN IcrClear(@, v) ELSE @]
    /\ acc' = [reg |-> r, op |-> "write", val |-> v]

\* NullLock::lock around a closure on PL011_UART.inner: the closure starts at
\* label l and the call returns to k
LockCall(c, l, k) ==
    /\ lock' = lock + 1
    /\ self' = "driver"
    /\ cont' = k
    /\ Goto(c, l)

\* the running operation returns to its caller; a lock closure ends
Return(c) ==
    /\ pc' = [pc EXCEPT ![c] = cont]
    /\ cont' = "none"
    /\ lock' = IF self = "driver" THEN lock - 1 ELSE lock

\* variant: the fractional divisor is left as it was
init_writes_NoFBRD ==
    << [reg |-> "CR", val |-> 0],
       [reg |-> "ICR", val |-> 0],
       [reg |-> "IBRD", val |-> 13],
       [reg |-> "LCRH", val |-> 112],
       [reg |-> "CR", val |-> 769] >>

\* variant: the device is not disabled first
init_writes_NoDisable ==
    << [reg |-> "ICR", val |-> 0],
       [reg |-> "IBRD", val |-> 13],
       [reg |-> "FBRD", val |-> 2],
       [reg |-> "LCRH", val |-> 112],
       [reg |-> "CR", val |-> 769] >>

\* PL011UartInner::init: the register writes it issues, in order
init_writes ==
    << [reg |-> "CR", val |-> 0],
       [reg |-> "ICR", val |-> FieldCLEAR(ICR_ALL_NUMBITS, 0)],
       [reg |-> "IBRD", val |-> FieldValue(IBRD_NUMBITS, 0, IBRD_VAL)],
       [reg |-> "FBRD", val |-> FieldValue(FBRD_NUMBITS, 0, FBRD_VAL)],
       [reg |-> "LCRH", val |-> FieldValue(LCRH_WLEN_NUMBITS, LCRH_WLEN_OFFSET,
                                           LCRH_WLEN_EightBit)
                                + FieldValue(1, LCRH_FEN_OFFSET, 1)],
       [reg |-> "CR", val |-> FieldValue(1, CR_UARTEN_OFFSET, 1)
                              + FieldValue(1, CR_TXE_OFFSET, 1)
                              + FieldValue(1, CR_RXE_OFFSET, 1)] >>

\* one register write of init; after the last one DeviceDriver::init returns Ok
init(c) ==
    /\ pc[c] = "init"
    /\ RegWrite(init_writes[istep].reg, init_writes[istep].val)
    /\ IF istep < Len(init_writes)
         THEN /\ istep' = istep + 1
              /\ UNCHANGED <<pc, cont, lock, res>>
         ELSE /\ istep' = 1
              /\ res' = "Ok"
              /\ Return(c)
    /\ hist' = IF istep < Len(init_writes) \/ self # "driver" \/ hist.inits >= 2
               THEN hist ELSE [hist EXCEPT !.inits = @ + 1]
    /\ UNCHANGED <<bootVars, kernVars, inner, panicUart, self, txq, ret, stat,
                   panic_out>>

\* variant: write_char waits while the transmit FIFO is empty
TxMustWait_TXFE(fr) == MatchesAll(fr, 1, FR_TXFE_OFFSET, FieldSET(1, FR_TXFE_OFFSET))

\* variant: write_char tests the receive-FIFO-empty bit
TxMustWait_RXFE(fr) == MatchesAll(fr, 1, FR_RXFE_OFFSET, FieldSET(1, FR_RXFE_OFFSET))

\* the loop condition of write_char: the transmit FIFO is full
TxMustWait(fr) == MatchesAll(fr, 1, FR_TXFF_OFFSET, FieldSET(1, FR_TXFF_OFFSET))

\* variant: read_char tests the transmit-FIFO-full bit
RxMustWait_TXFF(fr) == MatchesAll(fr, 1, FR_TXFF_OFFSET, FieldSET(1, FR_TXFF_OFFSET))

\* the loop condition of read_char: the receive FIFO is empty
RxMustWait(fr) == MatchesAll(fr, 1, FR_RXFE_OFFSET, FieldSET(1, FR_RXFE_OFFSET))

\* write_char: one evaluation of the while condition, a read of the Flag Register
write_char_poll(c) ==
    /\ pc[c] = "tx"
    /\ txq # <<>>
    /\ \E fr \in FRValues :
         /\ acc' = [reg |-> "FR", op |-> "read", val |-> fr]
         /\ IF TxMustWait(fr)
              THEN /\ hist' = [hist EXCEPT !.waited = TRUE]
                   /\ UNCHANGED pc
              ELSE /\ Goto(c, "tx_dr")
                   /\ UNCHANGED hist
    /\ UNCHANGED <<bootVars, kernVars, regs, inner, panicUart, self, lock, txq,
                   istep, cont, res, ret, stat, panic_out>>

\* the largest value of the usize counters, at the width of the model's integers
USIZE_MAX == 2147483647

\* chars_written += 1 does not fit the counter
Overflows(n) == n = USIZE_MAX

\* variant: the counter is not incremented
WrittenInc_Skip(n) == n

\* chars_written after one more character
WrittenInc(n) == n + 1

\* write_char after the loop: DR.set(c as u32); chars_written += 1
write_char_dr(c) ==
    /\ pc[c] = "tx_dr"
    /\ RegWrite("DR", Head(txq))
    /\ txq' = Tail(txq)
    /\ hist' = [hist EXCEPT !.dr_wr = @ + 1, !.waited = FALSE]
    /\ IF self = "driver"
         THEN /\ UNCHANGED <<panicUart, panic_out>>
              /\ IF Overflows(inner.chars_written)
                   THEN \* a build without overflow checks wraps, one with
                        \* them panics inside the lock closure
                        \/ /\ inner' = [inner EXCEPT !.chars_written = 0]
                           /\ Goto(c, "tx")
                           /\ UNCHANGED panic_msg
                        \/ /\ panic_msg' = [some |-> TRUE, args |-> STR_OVERFLOW]
                           /\ Goto(c, "panic")
                           /\ UNCHANGED inner
                   ELSE /\ inner' = [inner EXCEPT !.chars_written = WrittenInc(@)]
                        /\ Goto(c, "tx")
                        /\ UNCHANGED panic_msg
         ELSE /\ panicUart' = [panicUart EXCEPT !.chars_written = WrittenInc(@)]
              /\ panic_out' = Append(panic_out, Head(txq))
              /\ Goto(c, "tx")
              /\ UNCHANGED <<inner, panic_msg>>
    /\ UNCHANGED <<bootVars, drv, initResult, initCalls, postInit, line, self,
                   lock, istep, cont, res, ret, stat>>

\* write_str has run out of characters: write_char / write_fmt returns
write_done(c) ==
    /\ pc[c] = "tx"
    /\ txq = <<>>
    /\ res' = "Ok"
    /\ Return(c)
    /\ UNCHANGED <<bootVars, kernVars, regs, inner, panicUart, self, txq, istep,
                   ret, stat, acc, hist, panic_out>>

\* read_char: one evaluation of the while condition
read_char_poll(c) ==
    /\ pc[c] = "rx"
    /\ \E fr \in FRValues :
         /\ acc' = [reg |-> "FR", op |-> "read", val |-> fr]
         /\ IF RxMustWait(fr)
              THEN /\ hist' = [hist EXCEPT !.waited = TRUE]
                   /\ UNCHANGED pc
              ELSE /\ Goto(c, "rx_dr")
                   /\ UNCHANGED hist
    /\ UNCHANGED <<bootVars, kernVars, regs, inner, panicUart, self, lock, txq,
                   istep, cont, res, ret, stat, panic_out>>

\* variant: the carriage return is passed through
ReadChar_Raw(v) == v % 256

\* DR.get() as u8 as char, with '\r' replaced by '\n'
ReadChar(v) == IF v % 256 = CR_CHAR THEN NL ELSE v % 256

\* chars_read after one more character
ReadInc(n) == n + 1

\* read_char after the loop: read DR, convert, chars_read += 1, return
read_char_dr(c) ==
    /\ pc[c] = "rx_dr"
    /\ \E v \in RxValues :
         /\ acc' = [reg |-> "DR", op |-> "read", val |-> v]
         /\ ret' = ReadChar(v)
    /\ inner' = [inner EXCEPT !.chars_read = ReadInc(@)]
    /\ hist' = [hist EXCEPT !.dr_rd = @ + 1, !.waited = FALSE]
    /\ Return(c)
    /\ UNCHANGED <<bootVars, kernVars, regs, panicUart, self, txq, istep, res,
                   stat, panic_out>>

\* Statistics::chars_written: the closure |inner| inner.chars_written
chars_written(c) ==
    /\ pc[c] = "stat_cw"
    /\ stat' = inner.chars_written
    /\ Return(c)
    /\ UNCHANGED <<bootVars, kernVars, regs, inner, panicUart, self, txq, istep,
                   res, ret, acc, hist, panic_out>>

\* variant: write_fmt's closure writes every character through the locked
\* PL011Uart::write_char, a second closure inside the first
WriteFmtCall_Nested(c, text, k) ==
    /\ pc' = [pc EXCEPT ![c] = "tx"]
    /\ cont' = k
    /\ self' = "driver"
    /\ lock' = lock + 2
    /\ txq' = text
    /\ hist' = [hist EXCEPT !.wr_req = @ + Len(text)]

\* console::interface::Write::write_fmt on PL011_UART with the formatted text
WriteFmtCall(c, text, k) ==
    /\ LockCall(c, "tx", k)
    /\ txq' = text
    /\ hist' = [hist EXCEPT !.wr_req = @ + Len(text)]

\* console::interface::Read::read_char on PL011_UART
ReadCharCall(c, k) ==
    /\ LockCall(c, "rx", k)
    /\ hist' = [hist EXCEPT !.rd_req = @ + 1]

\* console::interface::Write::write_char on PL011_UART
WriteCharCall(c, ch, k) ==
    /\ LockCall(c, "tx", k)
    /\ txq' = <<ch>>
    /\ hist' = [hist EXCEPT !.wr_req = @ + 1]

-----------------------------------------------------------------------------
(* Kernel initialization and main loop: main.rs *)

\* kernel_init: the for loop over all_device_drivers() starts
kernel_init(c) ==
    /\ pc[c] = "kernel_init"
    /\ drv' = 1
    /\ Goto(c, "drv_loop")
    /\ UNCHANGED <<bootVars, initResult, initCalls, postInit, line, panic_msg,
                   uartVars>>

\* variant: the loop stops one driver early
HasNext_Short(k) == k < Len(device_drivers)

\* the iterator over all_device_drivers() has a k-th element
HasNext(k) == k <= Len(device_drivers)

\* the loop has a next driver: i.init() is called
driver_init(c) ==
    /\ pc[c] = "drv_loop"
    /\ HasNext(drv)
    /\ initCalls' = [initCalls EXCEPT ![drv] = @ + 1]
    /\ IF device_drivers[drv] = "PL011_UART"
         THEN /\ LockCall(c, "init", "drv_check")
              /\ UNCHANGED res
         ELSE /\ \E r \in GpioInitOutcomes : res' = r
              /\ Goto(c, "drv_check")
              /\ UNCHANGED <<lock, self, cont>>
    /\ UNCHANGED <<bootVars, drv, initResult, postInit, line, panic_msg, regs,
                   inner, panicUart, txq, istep, ret, stat, acc, hist, panic_out>>

\* variant: the result of init is ignored
AfterInit_Ignore(r) == "next"

\* what kernel_init does with the result of driver k's init
AfterInit(r) == IF r = "Err" THEN "panic" ELSE "next"

\* if i.init().is_err() { panic!("Error loading driver: {}", i.compatible()) }
driver_check(c) ==
    /\ pc[c] = "drv_check"
    /\ initResult' = [initResult EXCEPT ![drv] = res]
    /\ IF AfterInit(res) = "panic"
         THEN /\ panic_msg' = [some |-> TRUE,
                               args |-> STR_ERR_LOADING \o compatible(device_drivers[drv])]
              /\ Goto(c, "panic")
              /\ UNCHANGED drv
         ELSE /\ drv' = drv + 1
              /\ Goto(c, "drv_loop")
              /\ UNCHANGED panic_msg
    /\ UNCHANGED <<bootVars, initCalls, postInit, line, uartVars>>

\* the loop is over: driver_manager().post_device_driver_init()
post_device_driver_init(c) ==
    /\ pc[c] = "drv_loop"
    /\ ~HasNext(drv)
    /\ postInit' = postInit + 1
    /\ Goto(c, "kernel_main")
    /\ UNCHANGED <<bootVars, drv, initResult, initCalls, line, panic_msg, uartVars>>

\* number of println! calls kernel_main makes before the echo loop
BannerLines == Len(device_drivers) + 4

\* the text of kernel_main's k-th println!, cw being what chars_written() returns
BannerLine(k, cw) ==
    (CASE k = 0 -> STR_L0 \o STR_BOARD
       [] k = 1 -> STR_L1
       [] k = BannerLines - 2 -> STR_L2 \o Decimal(cw)
       [] k = BannerLines - 1 -> STR_L3
       [] OTHER -> STR_L1_OPEN \o Decimal(k - 1) \o STR_L1_CLOSE
                   \o compatible(device_drivers[k - 1]))
    \o <<NL>>

\* the banner line whose argument is console().chars_written()
StatsLine == BannerLines - 2

\* kernel_main: the argument of the "Chars written" line is evaluated, a call
\* of chars_written() that returns before println! runs
kernel_main_args(c) ==
    /\ pc[c] = "kernel_main"
    /\ line = StatsLine
    /\ LockCall(c, "stat_cw", "kernel_main_args")
    /\ UNCHANGED <<bootVars, kernVars, regs, inner, panicUart, txq, istep, res,
                   ret, stat, acc, hist, panic_out>>

\* kernel_main: the next println! of the banner
kernel_main(c) ==
    /\ pc[c] = IF line = StatsLine THEN "kernel_main_args" ELSE "kernel_main"
    /\ line < BannerLines
    /\ WriteFmtCall(c, BannerLine(line, stat), "kernel_main")
    /\ line' = line + 1
    /\ UNCHANGED <<bootVars, drv, initResult, initCalls, postInit, panic_msg, regs,
                   inner, panicUart, istep, res, ret, stat, acc, panic_out>>

\* the banner is out: the echo loop starts
echo_start(c) ==
    /\ pc[c] = "kernel_main"
    /\ line = BannerLines
    /\ Goto(c, "echo")
    /\ UNCHANGED <<bootVars, kernVars, uartVars>>

\* let c = console().read_char()
echo_read(c) ==
    /\ pc[c] = "echo"
    /\ inner.chars_read < MaxEcho
    /\ ReadCharCall(c, "echo_write")
    /\ UNCHANGED <<bootVars, kernVars, regs, inner, panicUart, txq, istep, res,
                   ret, stat, acc, panic_out>>

\* variant: the character is echoed twice
echo_write_Twice(c) ==
    /\ pc[c] = "echo_write"
    /\ WriteFmtCall(c, <<ret, ret>>, "echo")
    /\ UNCHANGED <<bootVars, kernVars, regs, inner, panicUart, istep, res, ret,
                   stat, acc, panic_out>>

\* console().write_char(c)
echo_write(c) ==
    /\ pc[c] = "echo_write"
    /\ WriteCharCall(c, ret, "echo")
    /\ UNCHANGED <<bootVars, kernVars, regs, inner, panicUart, istep, res, ret,
                   stat, acc, panic_out>>

-----------------------------------------------------------------------------
(* Panic path: panic_wait.rs *)

\* variant: the message is dropped
PanicText_Bare(msg) == <<NL>> \o STR_FATAL_BARE \o <<NL>>

\* the line the panic handler prints
PanicText(msg) ==
    IF msg.some THEN <<NL>> \o STR_FATAL \o msg.args \o <<NL>>
    ELSE <<NL>> \o STR_FATAL_BARE \o <<NL>>

\* bsp::console::panic_console_out(): a new PanicUart over the same registers
panic_console_out == [live |-> TRUE] @@ NewInner

\* variant: the handler prints through console(), inside a lock closure
PanicThroughLock_Console == TRUE

\* _panic_print takes panic_console_out(), which goes around the lock
PanicThroughLock == FALSE

\* variant: the handler writes through the driver's own inner state
PanicInstance_Driver == "driver"

\* the PL011UartInner the handler writes through: the PanicUart it constructs
PanicInstance == "panic"

\* variant: the handler returns into the driver loop
AfterPanicPrint_Resume == "drv_loop"

\* where the handler goes once the line is printed: cpu::wait_forever()
AfterPanicPrint == "wait_forever"

\* panic: _panic_print through panic_console_out(), then wait_forever
panic(c) ==
    /\ pc[c] = "panic"
    /\ panicUart' = IF PanicInstance = "panic" THEN panic_console_out ELSE panicUart
    /\ self' = PanicInstance
    /\ lock' = IF PanicThroughLock THEN lock + 1 ELSE lock
    /\ txq' = PanicText(panic_msg)
    /\ cont' = AfterPanicPrint
    /\ Goto(c, "tx")
    /\ UNCHANGED <<bootVars, kernVars, regs, inner, istep, res, ret, stat, acc,
                   hist, panic_out>>

-----------------------------------------------------------------------------
(* A client of the driver's public operations, for SpecDriver *)

\* characters and strings the client writes
TxChars == {65, 13}
TxStrings == UNION {[1..n -> TxChars] : n \in 0..MaxStr}

\* a constructed driver nobody has used yet, over any prior register state
InitDriver ==
    /\ InitCommon
    /\ pc = [c \in Cores |-> IF IsBootCore(c) THEN "client" ELSE "wfe"]
    /\ sp = [c \in Cores |->
               IF IsBootCore(c) THEN [set |-> TRUE, val |-> BOOT_CORE_STACK_START]
               ELSE [set |-> FALSE, val |-> 0]]
    /\ mem = [a \in Addrs |-> 0]
    /\ mem0 = mem
    /\ bss = [start |-> 0, end |-> MemSize]
    /\ regs \in PriorRegs

\* an initialized driver whose chars_written has reached the largest value
\* of the counter; the history counts from here
InitPanic ==
    /\ ptr = 0
    /\ drv = Len(device_drivers) + 1
    /\ initResult = [k \in 1..Len(device_drivers) |-> "Ok"]
    /\ initCalls = [k \in 1..Len(device_drivers) |-> 1]
    /\ postInit = 1
    /\ line = BannerLines
    /\ panic_msg = [some |-> FALSE, args |-> <<>>]
    /\ inner = [chars_written |-> USIZE_MAX, chars_read |-> 0]
    /\ panicUart = [live |-> FALSE] @@ NewInner
    /\ self = "driver"
    /\ lock = 0
    /\ txq = <<>>
    /\ istep = 1
    /\ cont = "none"
    /\ res = "none"
    /\ ret = 0
    /\ stat = 0
    /\ acc = NoAccess
    /\ hist = [NoHist EXCEPT !.inits = 1]
    /\ panic_out = <<>>
    /\ pc = [c \in Cores |-> IF IsBootCore(c) THEN "client" ELSE "wfe"]
    /\ sp = [c \in Cores |->
               IF IsBootCore(c) THEN [set |-> TRUE, val |-> BOOT_CORE_STACK_START]
               ELSE [set |-> FALSE, val |-> 0]]
    /\ mem = [a \in Addrs |-> 0]
    /\ mem0 = mem
    /\ bss = [start |-> 0, end |-> MemSize]
    /\ regs = [DR |-> 0, IBRD |-> init_writes[3].val, FBRD |-> init_writes[4].val,
               LCRH |-> init_writes[5].val, CR |-> init_writes[6].val, ICR |-> 0,
               RIS |-> 0]

\* a constructed driver over any prior register state and any pending
\* interrupt flags
InitInit ==
    /\ InitCommon
    /\ pc = [c \in Cores |-> IF IsBootCore(c) THEN "client" ELSE "wfe"]
    /\ sp = [c \in Cores |->
               IF IsBootCore(c) THEN [set |-> TRUE, val |-> BOOT_CORE_STACK_START]
               ELSE [set |-> FALSE, val |-> 0]]
    /\ mem = [a \in Addrs |-> 0]
    /\ mem0 = mem
    /\ bss = [start |-> 0, end |-> MemSize]
    /\ \E r \in PriorRegs, p \in PriorPending : regs = [r EXCEPT !.RIS = p]

\* DeviceDriver::init
client_init(c) ==
    /\ pc[c] = "client"
    /\ LockCall(c, "init", "client")
    /\ UNCHANGED <<bootVars, kernVars, regs, inner, panicUart, txq, istep, res,
                   ret, stat, acc, hist, panic_out>>

\* Write::write_char
client_write_char(c) ==
    /\ pc[c] = "client"
    /\ inner.chars_written < MaxChars \/ Overflows(inner.chars_written)
    /\ \E ch \in TxChars : WriteCharCall(c, ch, "client")
    /\ UNCHANGED <<bootVars, kernVars, regs, inner, panicUart, istep, res, ret,
                   stat, acc, panic_out>>

\* Write::write_fmt
client_write_fmt(c) ==
    /\ pc[c] = "client"
    /\ \E s \in TxStrings :
         /\ inner.chars_written + Len(s) <= MaxChars
         /\ WriteFmtCall(c, s, "client")
    /\ UNCHANGED <<bootVars, kernVars, regs, inner, panicUart, istep, res, ret,
                   stat, acc, panic_out>>

\* Read::read_char
client_read_char(c) ==
    /\ pc[c] = "client"
    /\ inner.chars_read < MaxChars
    /\ ReadCharCall(c, "client")
    /\ UNCHANGED <<bootVars, kernVars, regs, inner, panicUart, txq, istep, res,
                   ret, stat, acc, panic_out>>

\* Statistics::chars_written called by the client
client_chars_written(c) ==
    /\ pc[c] = "client"
    /\ LockCall(c, "stat_cw", "client")
    /\ UNCHANGED <<bootVars, kernVars, regs, inner, panicUart, txq, istep, res,
                   ret, stat, acc, hist, panic_out>>

\* Statistics::chars_read called by the client
client_chars_read(c) ==
    /\ pc[c] = "client"
    /\ LockCall(c, "stat_cr", "client")
    /\ UNCHANGED <<bootVars, kernVars, regs, inner, panicUart, txq, istep, res,
                   ret, stat, acc, hist, panic_out>>

\* Statistics::chars_read: the closure |inner| inner.chars_read
chars_read(c) ==
    /\ pc[c] = "stat_cr"
    /\ stat' = inner.chars_read
    /\ Return(c)
    /\ UNCHANGED <<bootVars, kernVars, regs, inner, panicUart, self, txq, istep,
                   res, ret, acc, hist, panic_out>>

-----------------------------------------------------------------------------
(* Specifications *)

EntryStep(c) == start(c) \/ set_sp(c) \/ wait_forever(c)

BootstrapStep(c) == runtime_init(c) \/ zero_volatile_step(c) \/ zero_bss_done(c)

UartStep(c) ==
    \/ init(c)
    \/ write_char_poll(c)
    \/ write_char_dr(c)
    \/ write_done(c)
    \/ read_char_poll(c)
    \/ read_char_dr(c)
    \/ chars_written(c)

KernelStep(c) ==
    \/ kernel_init(c)
    \/ driver_init(c)
    \/ driver_check(c)
    \/ post_device_driver_init(c)
    \/ kernel_main_args(c)
    \/ kernel_main(c)
    \/ echo_start(c)
    \/ echo_read(c)
    \/ echo_write(c)
    \/ panic(c)

ClientStep(c) ==
    \/ client_init(c)
    \/ client_write_char(c)
    \/ client_write_fmt(c)
    \/ client_read_char(c)
    \/ client_chars_written(c)
    \/ client_chars_read(c)
    \/ chars_read(c)

Next == \E c \in Cores : EntryStep(c) \/ BootstrapStep(c) \/ KernelStep(c) \/ UartStep(c)

Spec == Init /\ [][Next]_vars

NextBoot == \E c \in Cores : EntryStep(c) \/ BootstrapStep(c)

SpecBoot == InitBoot /\ [][NextBoot]_vars

NextDriver == \E c \in Cores : ClientStep(c) \/ UartStep(c)

SpecDriver == InitDriver /\ [][NextDriver]_vars

\* the client writes one more character when chars_written is at its largest
\* value; a panic inside the lock closure is then one of the outcomes
NextPanic ==
    \E c \in Cores :
        \/ client_write_char(c)
        \/ write_char_poll(c)
        \/ write_char_dr(c)
        \/ write_done(c)
        \/ panic(c)
        \/ wait_forever(c)

SpecPanic == InitPanic /\ [][NextPanic]_vars

\* init alone, called any number of times
NextInit == \E c \in Cores : client_init(c) \/ init(c)

SpecInit == InitInit /\ [][NextInit]_vars

\* the device clears the flag a polling loop waits for: a poll that leaves
\* the loop of write_char, of read_char
TxFlagClears == \E c \in Cores : write_char_poll(c) /\ pc'[c] = "tx_dr"
RxFlagClears == \E c \in Cores : read_char_poll(c) /\ pc'[c] = "rx_dr"

\* the whole program on a device that does not keep a polled flag set for
\* ever; the cores keep running
SpecLive ==
    /\ Init
    /\ [][Next]_vars
    /\ WF_vars(Next)
    /\ WF_vars(TxFlagClears)
    /\ WF_vars(RxFlagClears)

-----------------------------------------------------------------------------
(* Properties *)

B == BOOT_CORE_ID
DriverIdx == 1..Len(device_drivers)

\* the boot core is in the panic handler or past it
InPanicPath ==
    \/ pc[B] \in {"panic", "wait_forever", "wfe"}
    \/ pc[B] \in {"tx", "tx_dr"} /\ self = "panic"

\* the boot core is in kernel_main or in a driver call kernel_main made
InKernelMain ==
    LET km == {"kernel_main", "kernel_main_args", "echo", "echo_write"} IN
    \/ pc[B] \in km
    \/ /\ pc[B] \in {"tx", "tx_dr", "rx", "rx_dr", "stat_cw"}
       /\ self = "driver"
       /\ cont \in km

Bit(v, n) == (v \div (2 ^ n)) % 2

\* s occurs in t as a contiguous subsequence
Contains(t, s) ==
    \E k \in 0..(Len(t) - Len(s)) : SubSeq(t, k + 1, k + Len(s)) = s

\* C1: once a driver's init has failed, post_device_driver_init has not run
\* and never runs, kernel_main is not entered, every driver before the failing
\* one was initialized once with success, no driver after it has its init
\* called, and the boot core is on the panic path.
C1_InitFailureShortCircuits ==
    \A k \in DriverIdx :
        initResult[k] = "Err" =>
            /\ postInit = 0
            /\ ~InKernelMain
            /\ line = 0
            /\ hist.wr_req = 0
            /\ \A j \in DriverIdx : j < k => initResult[j] = "Ok" /\ initCalls[j] = 1
            /\ \A j \in DriverIdx : j > k => initResult[j] = "none" /\ initCalls[j] = 0
            /\ InPanicPath

C1_Witness ==
    /\ initResult[1] = "Err"
    /\ pc[B] = "wfe"
    /\ initCalls[2] = 0

\* C2: the characters handed to the driver for writing and not yet emitted,
\* plus chars_written, equal the characters handed to it so far, so that
\* chars_written = N once N characters were written and every call returned;
\* no step of init, read_char or a statistics query changes chars_written.
C2_CharsWrittenCountsWrites ==
    /\ [](/\ inner.chars_written + Len(txq) = hist.wr_req
          /\ pc[B] = "client" => inner.chars_written = hist.wr_req)
    /\ [][pc[B] \in {"init", "rx", "rx_dr", "stat_cw", "stat_cr", "client"}
            => inner'.chars_written = inner.chars_written]_vars

C2_Witness ==
    /\ pc[B] = "client"
    /\ inner.chars_written = MaxChars
    /\ hist.wr_req = MaxChars
    /\ inner.chars_read >= 1
    /\ hist.inits >= 1

\* C3: a write of the Data Register by write_char happens only right after a
\* read of the Flag Register that showed bit 5 (transmit FIFO full) clear;
\* a poll that shows the bit set is followed by another poll, not by a write.
C3_WriteOnlyAfterTxffClear ==
    /\ [](pc[B] = "tx_dr" =>
            acc.reg = "FR" /\ acc.op = "read" /\ Bit(acc.val, 5) = 0)
    /\ [][hist'.dr_wr # hist.dr_wr =>
            /\ acc.reg = "FR" /\ acc.op = "read" /\ Bit(acc.val, 5) = 0
            /\ acc'.reg = "DR" /\ acc'.op = "write"
            /\ hist'.dr_wr = hist.dr_wr + 1]_vars
    /\ [][(pc[B] = "tx" /\ txq # <<>> /\ acc'.reg = "FR" /\ Bit(acc'.val, 5) = 1) =>
            /\ pc'[B] = "tx"
            /\ txq' = txq
            /\ hist'.dr_wr = hist.dr_wr
            /\ hist'.waited]_vars

C3_Witness ==
    /\ pc[B] = "tx_dr"
    /\ hist.waited
    /\ self = "panic"
    /\ Head(txq) = 70

\* C4: chars_read equals the number of read_char calls that returned, the
\* Data Register was read once for each of them, and every read of the Data
\* Register comes right after a read of the Flag Register that showed bit 4
\* (receive FIFO empty) clear.
C4_CharsReadCountsReads ==
    /\ [](/\ pc[B] = "client" =>
                inner.chars_read = hist.rd_req /\ hist.dr_rd = hist.rd_req
          /\ pc[B] \in {"rx", "rx_dr"} =>
                inner.chars_read = hist.rd_req - 1 /\ hist.dr_rd = hist.rd_req - 1)
    /\ [][hist'.dr_rd # hist.dr_rd =>
            /\ acc.reg = "FR" /\ acc.op = "read" /\ Bit(acc.val, 4) = 0
            /\ acc'.reg = "DR" /\ acc'.op = "read"
            /\ hist'.dr_rd = hist.dr_rd + 1]_vars

C4_Witness ==
    /\ pc[B] = "client"
    /\ inner.chars_read = MaxChars
    /\ hist.rd_req = MaxChars
    /\ inner.chars_written >= 1

\* C5: after read_char sampled value v from the Data Register it returns the
\* low byte of v, except that a low byte of 13 is returned as 10; it never
\* returns 13.
C5_ReadCharTranslatesCR ==
    /\ ret # 13
    /\ (acc.reg = "DR" /\ acc.op = "read") =>
          LET low == acc.val - 256 * (acc.val \div 256) IN
          /\ low = 13 => ret = 10
          /\ low # 13 => ret = low

C5_Witness ==
    /\ pc[B] = "client"
    /\ acc = [reg |-> "DR", op |-> "read", val |-> 269]
    /\ ret = 10

\* C6: once init has run, whenever no init is in progress the configuration
\* is integer divisor 13, fractional divisor 2, 8-bit words, FIFOs enabled and
\* a Control Register of exactly UARTEN + TXE + RXE, whatever the registers
\* held before and however often init ran.
C6_InitConfigurationFixed ==
    (hist.inits >= 1 /\ pc[B] # "init") =>
        /\ regs.IBRD = 13
        /\ regs.FBRD = 2
        /\ Bit(regs.LCRH, 5) = 1 /\ Bit(regs.LCRH, 6) = 1
        /\ Bit(regs.LCRH, 4) = 1
        /\ regs.CR = 1 + 256 + 512

C6_Witness ==
    /\ hist.inits = 2
    /\ pc[B] = "client"
    /\ inner = NewInner
    /\ acc = [reg |-> "CR", op |-> "write", val |-> 769]

\* C7: a core other than the boot core never has its stack pointer set and is
\* only ever at _start or in wait_forever, which it never leaves; the boot
\* core is past _start only with its stack pointer set.
C7_BootCoreGating ==
    /\ [](\A c \in Cores :
            /\ c # B => ~sp[c].set /\ pc[c] \in {"_start", "wait_forever", "wfe"}
            /\ (c = B /\ pc[c] \notin {"_start", "set_sp"}) =>
                  sp[c] = [set |-> TRUE, val |-> BOOT_CORE_STACK_START])
    /\ [][\A c \in Cores :
            (c # B /\ pc[c] \in {"wait_forever", "wfe"}) =>
                pc'[c] \in {"wait_forever", "wfe"}]_vars

C7_Witness ==
    /\ \E c \in Cores : c # B /\ pc[c] = "wfe"
    /\ pc[B] = "echo"
    /\ sp[B].set

\* C8: when control reaches kernel_init every cell in [start, end) is zero,
\* and at every moment every cell outside [start, end) holds what it held at
\* reset.
C8_BssZeroedExactly ==
    \A a \in Addrs :
        /\ (pc[B] = "kernel_init" /\ bss.start <= a /\ a < bss.end) => mem[a] = 0
        /\ ~(bss.start <= a /\ a < bss.end) => mem[a] = mem0[a]

C8_Witness ==
    /\ pc[B] = "kernel_init"
    /\ \E a \in Addrs : bss.start <= a /\ a < bss.end /\ mem0[a] = 1 /\ mem[a] = 0
    /\ \E a \in Addrs : ~(bss.start <= a /\ a < bss.end) /\ mem[a] = 1

\* C9: when the panic raised by a failed init has printed its line, the line
\* is a newline, "Fatal error: ", a message that contains the compatible()
\* name of the failing driver and of no driver after it, and a newline.
C9_FatalMessageNamesDriver ==
    \A k \in DriverIdx :
        (initResult[k] = "Err" /\ pc[B] = "wfe") =>
            LET n == Len(panic_out)
                p == Len(STR_FATAL)
                m == SubSeq(panic_out, p + 2, n - 1)
            IN  /\ n > p + 2
                /\ panic_out[1] = NL
                /\ SubSeq(panic_out, 2, p + 1) = STR_FATAL
                /\ panic_out[n] = NL
                /\ Contains(m, compatible(device_drivers[k]))
                /\ \A j \in DriverIdx :
                      j > k => ~Contains(m, compatible(device_drivers[j]))

C9_Witness ==
    /\ initResult[1] = "Err"
    /\ pc[B] = "wfe"
    /\ Contains(panic_out, STR_GPIO)

\* C10: every driver's init is called at most once and only after every
\* driver before it returned Ok (the UART after GPIO); post_device_driver_init
\* runs at most once, only after every init returned Ok, and has run once
\* whenever the boot core is in kernel_main.
C10_InitSequential ==
    /\ \A k \in DriverIdx :
          /\ initCalls[k] <= 1
          /\ initCalls[k] = 1 => \A j \in DriverIdx : j < k => initResult[j] = "Ok"
          /\ initResult[k] # "none" => initCalls[k] = 1
    /\ hist.inits >= 1 => device_drivers[1] = "GPIO" /\ initResult[1] = "Ok"
    /\ postInit <= 1
    /\ postInit = 1 => \A k \in DriverIdx : initResult[k] = "Ok"
    /\ InKernelMain => postInit = 1

C10_Witness ==
    /\ InKernelMain
    /\ postInit = 1
    /\ hist.inits = 1
    /\ line = 1

\* C11: the panic path is never left: a boot core on it stays on it and no
\* driver init, post-init hook, kernel_main line or read_char starts from
\* there; once the boot core is in wait_forever the whole fatal line has been
\* emitted, the core stays in wait_forever, and no register is accessed and
\* nothing of the kernel or the driver changes any more.
C11_PanicIsTerminal ==
    /\ [](pc[B] \in {"wait_forever", "wfe"} =>
            panicUart.live /\ panic_out = PanicText(panic_msg))
    /\ [][InPanicPath =>
            /\ InPanicPath'
            /\ UNCHANGED <<drv, initResult, initCalls, postInit, line, inner>>
            /\ hist'.inits = hist.inits
            /\ hist'.rd_req = hist.rd_req
            /\ hist'.wr_req = hist.wr_req]_vars
    /\ [][pc[B] \in {"wait_forever", "wfe"} =>
            /\ pc'[B] \in {"wait_forever", "wfe"}
            /\ UNCHANGED <<kernVars, regs, acc, hist, inner, panicUart,
                           panic_out, lock>>]_vars

C11_Witness ==
    /\ pc[B] = "wfe"
    /\ panic_msg.some
    /\ panic_out = PanicText(panic_msg)
    /\ acc = [reg |-> "DR", op |-> "write", val |-> NL]

\* C12: the panic handler never enters a lock closure: no step on the panic
\* path changes the lock; when the panic is raised the handler can always
\* take its step, whether or not a lock closure of the failing call is still
\* open; it writes through the PanicUart it constructed, and by the time it
\* waits the whole line is out and a closure that was open is still open.
C12_PanicBypassesLock ==
    /\ [](pc[B] = "panic" => ENABLED panic(B))
    /\ []((pc[B] \in {"tx", "tx_dr", "wait_forever", "wfe"} /\ panic_msg.some) =>
            self = "panic" /\ panicUart.live)
    /\ [](pc[B] \in {"wait_forever", "wfe"} => panic_out = PanicText(panic_msg))
    /\ [][(pc[B] = "panic" \/ panic_msg.some) => lock' = lock]_vars

C12_Witness ==
    /\ pc[B] = "wfe"
    /\ lock = 1
    /\ panic_msg.args = STR_OVERFLOW
    /\ panic_out = PanicText(panic_msg)

\* C13: init writes, in this order, 0 to CR, then ICR, IBRD, FBRD, LCRH, and
\* last CR once more with exactly UARTEN, TXE and RXE set; CR holds 0 at every
\* write of a divisor or of LCRH; the enabling write is the last access of
\* init, which then returns.
C13_InitWriteOrder ==
    [][pc[B] = "init" =>
        LET en == Pow2(CR_UARTEN_OFFSET) + Pow2(CR_TXE_OFFSET) + Pow2(CR_RXE_OFFSET)
            first == acc'.reg = "CR" /\ acc'.val = 0
            last == acc'.reg = "CR" /\ acc'.val = en
        IN  /\ acc'.op = "write"
            /\ acc'.reg \in {"CR", "ICR", "IBRD", "FBRD", "LCRH"}
            /\ (istep = 1) = first
            /\ first => regs'.CR = 0
            /\ acc'.reg = "ICR" => acc.reg = "CR" /\ acc.val = 0 /\ acc.op = "write"
            /\ acc'.reg = "IBRD" => acc.reg = "ICR" /\ regs.CR = 0
            /\ acc'.reg = "FBRD" => acc.reg = "IBRD" /\ regs.CR = 0
            /\ acc'.reg = "LCRH" => acc.reg = "FBRD" /\ regs.CR = 0
            /\ last => acc.reg = "LCRH" /\ regs.CR = 0 /\ regs'.CR = en
            /\ last = (pc'[B] # "init")
            /\ acc'.reg = "CR" => first \/ last]_vars

C13_Witness ==
    /\ pc[B] = "init"
    /\ acc = [reg |-> "LCRH", op |-> "write", val |-> 112]
    /\ regs.CR = 0
    /\ regs.IBRD = IBRD_VAL /\ regs.FBRD = FBRD_VAL
    /\ hist.inits = 1

\* C14: after init's write to ICR no interrupt flag that was pending before
\* init is still pending.
C14_PendingCleared ==
    (acc.reg = "ICR" /\ acc.op = "write") => regs.RIS = 0

C16_LockNeverNested ==
    /\ lock \in {0, 1}
    /\ lock = 1 <=>
          /\ pc[B] \in {"init", "tx", "tx_dr", "rx", "rx_dr", "stat_cw"}
          /\ self = "driver"

C16_Witness ==
    /\ lock = 1
    /\ pc[B] = "rx_dr"
    /\ cont = "echo_write"
    /\ hist.inits = 1
    /\ stat > 0
    /\ inner.chars_read = 1

\* C17: every register access of the driver is a read or a write at one of
\* the offsets 0x00, 0x18, 0x24, 0x28, 0x2C, 0x30, 0x44 and at no offset of a
\* reserved range; the register at 0x18 is only read, those at 0x24, 0x28,
\* 0x2C, 0x30 and 0x44 are only written, so that only the one at 0x00 is both
\* read and written.
C17_DeclaredRegistersOnly ==
    acc.reg # "none" =>
        LET off == RegisterBlock[acc.reg] IN
        /\ acc.op \in {"read", "write"}
        /\ off \in {0, 24, 36, 40, 44, 48, 68}
        /\ off \notin (4..23) \cup (28..35) \cup (52..67)
        /\ off = 24 => acc.op = "read" /\ acc.reg = "FR"
        /\ off \in {36, 40, 44, 48, 68} => acc.op = "write"
        /\ (acc.op = "read" /\ off # 24) => off = 0 /\ acc.reg = "DR"
        /\ (acc.op = "write" /\ acc.reg \in {"DR", "FR"}) => off = 0

C17_Witness ==
    /\ acc.reg = "DR" /\ acc.op = "read"
    /\ RegisterBlock[acc.reg] = 0
    /\ hist.dr_wr > 0
    /\ hist.inits = 1
    /\ regs.CR = 769

\* C18: the polling loops have no other exit than the flag: a step of the
\* boot core in the loop of write_char or read_char is a poll; a poll of
\* write_char that shows bit 5 set, or of read_char that shows bit 4 set, is
\* followed by another poll with no Data Register access, no counter changed
\* and no return, and a loop is left only on a poll that shows the bit clear;
\* on a device that eventually clears the flags every write_char / write_fmt
\* and every read_char that was started returns.
C18_PollingNoTimeout ==
    /\ [][(pc[B] = "tx" /\ txq # <<>> /\ <<pc[B], uartVars>>' # <<pc[B], uartVars>>) =>
            /\ acc'.reg = "FR" /\ acc'.op = "read"
            /\ UNCHANGED <<regs, inner, panicUart, txq, cont, lock, res>>
            /\ hist'.dr_wr = hist.dr_wr
            /\ pc'[B] = (IF Bit(acc'.val, 5) = 1 THEN "tx" ELSE "tx_dr")]_vars
    /\ [][(pc[B] = "rx" /\ <<pc[B], uartVars>>' # <<pc[B], uartVars>>) =>
            /\ acc'.reg = "FR" /\ acc'.op = "read"
            /\ UNCHANGED <<regs, inner, ret, cont, lock>>
            /\ hist'.dr_rd = hist.dr_rd
            /\ pc'[B] = (IF Bit(acc'.val, 4) = 1 THEN "rx" ELSE "rx_dr")]_vars
    /\ (pc[B] \in {"tx", "tx_dr"}) ~> (pc[B] \notin {"tx", "tx_dr"})
    /\ (pc[B] \in {"rx", "rx_dr"}) ~> (pc[B] \notin {"rx", "rx_dr"})

C18_Witness ==
    /\ pc[B] = "rx_dr"
    /\ hist.waited
    /\ Bit(acc.val, 4) = 0
    /\ hist.dr_wr > 0
    /\ cont = "echo_write"

\* C19: once a panic is raised the driver's chars_written and chars_read keep
\* their values; the handler counts its characters in the PanicUart it
\* constructed, whose counters start at 0; and every character it emits is a
\* store to the same Data Register the driver writes, counted with the
\* driver's stores.
C19_PanicCountersSeparate ==
    /\ [](panic_msg.some =>
            /\ panicUart.chars_written = Len(panic_out)
            /\ panicUart.chars_read = 0
            /\ hist.dr_wr = hist.wr_req + Len(panic_out))
    /\ [][panic_msg.some => inner' = inner]_vars
    /\ [][(panic_msg.some /\ pc[B] = "tx_dr" /\ pc'[B] # pc[B]) =>
            /\ acc' = [reg |-> "DR", op |-> "write", val |-> Head(txq)]
            /\ regs'.DR = Head(txq)
            /\ panicUart'.chars_written = panicUart.chars_written + 1]_vars

C19_Witness ==
    /\ pc[B] = "wfe"
    /\ inner = [chars_written |-> USIZE_MAX, chars_read |-> 0]
    /\ panicUart.live
    /\ panicUart.chars_written = Len(PanicText(panic_msg))
    /\ regs.DR = NL
    /\ hist.wr_req = 1

\* C20: in the echo loop the character read_char returned is handed to
\* write_char once and stored to the Data Register once before the next
\* read_char is called; at the top of every iteration chars_written minus
\* chars_read is the number of characters of the banner, 144, and while a
\* character waits for its echo it is one less; a carriage return read shows
\* up as one newline written.
C20_EchoLoop ==
    LET banner == stat + Len(BannerLine(StatsLine, stat))
                       + Len(BannerLine(BannerLines - 1, stat))
        diff == inner.chars_written - inner.chars_read
        echoing == pc[B] \in {"tx", "tx_dr"} /\ self = "driver" /\ cont = "echo"
    IN
    /\ pc[B] = "echo" =>
          /\ banner = 144
          /\ diff = banner
          /\ hist.dr_wr = banner + hist.dr_rd
          /\ inner.chars_read > 0 =>
                acc = [reg |-> "DR", op |-> "write", val |-> ret] /\ regs.DR = ret
    /\ pc[B] = "echo_write" =>
          /\ diff = banner - 1
          /\ acc.reg = "DR" /\ acc.op = "read"
          /\ ret = (IF acc.val % 256 = 13 THEN 10 ELSE acc.val % 256)
    /\ echoing =>
          /\ txq \in {<<ret>>, <<>>}
          /\ diff + Len(txq) = banner
    /\ (pc[B] \in {"rx", "rx_dr"} /\ cont = "echo_write") => diff = banner

C20_Witness ==
    /\ pc[B] = "echo"
    /\ inner.chars_read = MaxEcho
    /\ inner.chars_written = 144 + MaxEcho
    /\ ret = NL
    /\ regs.DR = NL

=============================================================================
